---- MODULE Spec2Model ----
(***************************************************************************)
(* State-machine model of the renogy-bt protocol engine.                   *)
(*                                                                         *)
(* One device session runs on one asyncio event loop.  The steps of the    *)
(* model are the pieces of code that run between two suspension points     *)
(* (await) of the coroutines of the session:                               *)
(*   - the main task (start -> _main_task -> connect -> first request),    *)
(*   - one task per transport notification (on_data_received),             *)
(*   - the per-request timeout (loop.call_later / _check_timeout task).    *)
(* The peripheral is free: it may answer a request once, several times,    *)
(* late, with any operation byte and any length, or not at all.            *)
(***************************************************************************)
EXTENDS Integers, Sequences, FiniteSets, Bags, TLC

\* ---------------------------------------------------------------- bounds
NumSections == 2      \* sections of the register device (len(self.sections))
MaxNotifs == 3        \* transport notifications delivered to one session
MaxReqs == 3          \* requests one session issues (timeouts armed)
MaxCycles == 2        \* poll cycles one session starts
MaxPayload == 2       \* payload bytes of a scripted vendor frame
NumDevices == 2       \* sessions in the device list of the scheduler
MaxRounds == 2        \* rounds of the periodic scheduler after the first
MaxCalls == 2         \* calls of stop() and disconnect() by the application

\* ------------------------------------------------------ program constants
READ_SUCCESS == 3
READ_ERROR == 131
UNKNOWN_OPERATION == 6    \* an operation byte that is neither 3 nor 131
DEVICE_TAG == 100         \* key '__device' of the result map
CLIENT_TAG == 101         \* key '__client' of the result map

Sections == 0 .. (NumSections - 1)

\* words of section i: {'register': 5000, 'words': 8}, then one-word sections
SectionWords(i) == IF i = 0 THEN 8 ELSE 1

\* length of the well-formed success response to a request for section i
ResponseLen(i) == SectionWords(i) * 2 + 5

VARIABLES
    client,           \* class of the session: "BaseClient" | "EcoWorthyClient"
    enable_polling,   \* config['data']['enable_polling']
    section_index,    \* self.section_index
    data,             \* self.data: set of <<key, cycle in which it was decoded>>
    read_timeout,     \* self.read_timeout(_task): index into timers, 0 = None
    timers,           \* every timeout ever armed: "armed" | "cancelled" | "fired"
    future,           \* self.future: "PENDING" or its result
    loop,             \* the event loop: "running" | "closed"
    tasks,            \* suspended coroutines of the session
    reqs,             \* requests written to the transport
    events,           \* what the consumer callbacks were called with
    cycle,            \* number of poll cycles started
    notifs,           \* notifications delivered so far
    clean,            \* history: every request got one well-formed success
                      \* response, in order, and nothing failed
    lastParser,       \* history: the section parser in the last handler run:
                      \* "none" (not called) | "ok" | "raise"
    read_cellv,       \* config['data'].get('read_cellv'): "absent" or its text
    fetched_basics,   \* self.fetched_basics
    fetched_cellv,    \* self.fetched_cellv
    frame,            \* self.frame: the bytes assembled so far, <<>> = None
    decoded,          \* the <<operation, payload>> pairs handed to a decoder
    feed,             \* scripted peripheral: the deliveries of one frame,
                      \* those made (sent) and those still to come (rest)
    connection,       \* outcome of BLEManager.connect: "none" (not tried) |
                      \* "connected" | "failed" (link down) | "failed_up"
                      \* (failure reported, link up) | "hung" (never returns)
    cleanup,          \* EcoWorthyClient._cleanup has run
    discovery,        \* BLEManager.discover: "none" | "started"
    devs,             \* scheduler: the sessions of the device list
    main,             \* scheduler: where example.main is
    periodic,         \* scheduler: config['data'].getboolean('enable_polling')
    clock,            \* scheduler: time.time() (now), the poll interval and
                      \* the times main computes, all but interval in ms
    request,          \* codec: the arguments of create_generic_read_request
                      \* and the request it returned
    info,             \* codec: a basic-info payload and the fields decoded
    response,         \* history: operation byte and length check of the last
                      \* register notification handled
    fault,            \* history: the exception that ended the last run of the
                      \* vendor notification handler, "none" if it returned
    operation,        \* history: the operation byte of the frame that the last
                      \* run of the vendor notification handler completed,
                      \* -1 if it completed none
    app               \* history: the number of calls the application made to
                      \* stop() and disconnect() (and failures of start), and
                      \* the exception that the last of them raised

ecoVars == <<read_cellv, fetched_basics, fetched_cellv, frame, decoded, feed>>

startVars == <<connection, cleanup, discovery>>

mainVars == <<devs, main, periodic, clock>>

pureVars == <<request, info>>

histVars == <<response, fault, operation, app>>

sessionVars == <<client, enable_polling, section_index, data, read_timeout,
                 timers, future, loop, tasks, reqs, events, cycle, notifs,
                 clean, lastParser, ecoVars, startVars, histVars>>

vars == <<client, enable_polling, section_index, data, read_timeout, timers,
          future, loop, tasks, reqs, events, cycle, notifs, clean, lastParser,
          read_cellv, fetched_basics, fetched_cellv, frame, decoded, feed,
          connection, cleanup, discovery, devs, main, periodic, clock,
          request, info, response, fault, operation, app>>

\* ------------------------------------------------------------- helpers

\* the suspended coroutines are a bag: two handlers may wait at the same place
Suspend(bag, task) == bag (+) SetToBag({task})
Resume(bag, task) == bag (-) SetToBag({task})

\* a suspended coroutine: where it waits (pc), the request it is writing
\* (sec, t), the coroutine at the bottom of its call stack (root) and the number
\* of check_polling -> fetch_next calls on the stack (depth)
Task(pc) == [pc |-> pc, sec |-> 0, t |-> 0, root |-> "main", depth |-> 0]

\* dict.update for one key: the new entry replaces an entry of the same key
DictAssign(d, key, cyc) == {<<key, cyc>>}

DictUpdate(d, key, cyc) == {e \in d : e[1] # key} \cup {<<key, cyc>>}

Keys(d) == {e[1] : e \in d}

\* TimerHandle.cancel() / Task.cancel() guarded by "not cancelled()/done()"
CancelTimer(ts, h) ==
    IF h # 0 /\ ts[h] = "armed" THEN [ts EXCEPT ![h] = "cancelled"] ELSE ts

\* a request is in flight: written, not answered, its timeout has not fired
InFlight(r) == /\ ~reqs[r].answered
               /\ timers[reqs[r].t] # "fired"

\* the consumer's data callback is called with map m
DataEvent(m, cbOutcome) ==
    [kind |-> "data", why |-> "complete", cyc |-> cycle, map |-> m,
     raised |-> cbOutcome = "raise"]

\* the consumer's error callback is called n times in a row for one failure
ErrorEvents(n, why) ==
    [i \in 1 .. n |-> [kind |-> "error", why |-> why, cyc |-> cycle,
                       map |-> {}, raised |-> FALSE]]

\* ------------------------------------------------- BaseClient (register)

\* __safe_parser: the parser's fields enter the map; its exception is caught
\* (raised = the exception leaves __safe_parser)
SafeParserUncaught(d, sec, cyc, outcome) ==
    [data |-> IF outcome = "ok" THEN DictUpdate(d, sec, cyc) ELSE d,
     raised |-> outcome = "raise"]

SafeParser(d, sec, cyc, outcome) ==
    [data |-> IF outcome = "ok" THEN DictUpdate(d, sec, cyc) ELSE d,
     raised |-> FALSE]

\* __safe_callback: the consumer's exception is caught
\* (raised = the exception leaves __safe_callback)
SafeCallbackUncaught(outcome) == [raised |-> outcome = "raise"]

SafeCallback(outcome) == [raised |-> FALSE]

\* _ensure_future_resolved
EnsureFutureUnresolved(f, result) == f

EnsureFutureResolved(f, result) == IF f = "PENDING" THEN result ELSE f

\* start: run_until_complete(wait_for(self.future, 60)) returns when the
\* future is resolved, and the loop is closed: nothing of the session runs
\* after that
LoopAfter(f) == IF f = "PENDING" THEN "running" ELSE "closed"

\* __on_error: error callback, then the future is resolved
BaseClient_on_error(why) ==
    /\ events' = events \o ErrorEvents(1, why)
    /\ \E cbOutcome \in {"ok", "raise"} :
         future' = IF SafeCallback(cbOutcome).raised THEN future
                   ELSE EnsureFutureResolved(future, "ERROR")
    /\ loop' = LoopAfter(future')

\* read_section up to its first await: arm the timeout, build the request,
\* start the write.  rest = the session's other suspended coroutines.
BaseClient_read_section(rest) ==
    /\ timers' = Append(timers, "armed")
    /\ read_timeout' = Len(timers) + 1
    /\ tasks' = Suspend(rest, [Task("write") EXCEPT !.sec = section_index,
                                                     !.t = Len(timers) + 1])

\* start / _run_with_timeout: the main task is cancelled when the session
\* ends: what it awaited (the connect, the discovery, the stop event) is gone
KeepMainTask(bag) == bag

CancelMainTask(bag) ==
    LET gone == {tk \in BagToSet(bag) :
                    \/ tk.pc \in {"connect", "connecting", "discover", "waitstop"}
                    \/ tk.root = "connect"}
    IN  bag (-) SetToBag(gone)

\* __on_connect_fail: error callback, then the future is resolved
BaseClient_on_connect_fail ==
    /\ events' = events \o ErrorEvents(1, "connect")
    /\ \E cbOutcome \in {"ok", "raise"} :
         future' = IF SafeCallback(cbOutcome).raised THEN future
                   ELSE EnsureFutureResolved(future, "CONNECTION_FAILED")
    /\ loop' = LoopAfter(future')

\* connect: BLEManager.connect reported a failure through __on_connect_fail
\* and returned.  connect looks at client.is_connected only: with the link
\* up (the failure came while subscribing) it goes on to read_section, with
\* the link down it starts the discovery, which ends with the session.
BaseClient_connect_failed ==
    /\ client = "BaseClient" /\ loop = "running"
    /\ UNCHANGED <<mainVars, pureVars, histVars>>
    /\ \E tk \in BagToSet(tasks), up \in BOOLEAN :
         /\ tk.pc = "connect"
         /\ connection' = IF up THEN "failed_up" ELSE "failed"
         /\ IF up
            THEN /\ BaseClient_read_section(Resume(tasks, tk))
                 /\ discovery' = discovery
            ELSE /\ tasks' = Suspend(Resume(tasks, tk), Task("discover"))
                 /\ discovery' = "started"
                 /\ UNCHANGED <<timers, read_timeout>>
    /\ BaseClient_on_connect_fail
    /\ clean' = FALSE
    /\ UNCHANGED <<client, enable_polling, section_index, data, reqs, cycle,
                   notifs, lastParser, cleanup>>
    /\ UNCHANGED ecoVars

\* connect: BLEManager.connect never returns
BaseClient_connect_hangs ==
    /\ client = "BaseClient" /\ loop = "running"
    /\ UNCHANGED <<mainVars, pureVars, histVars>>
    /\ \E tk \in BagToSet(tasks) :
         /\ tk.pc = "connect"
         /\ tasks' = Suspend(Resume(tasks, tk), Task("connecting"))
    /\ connection' = "hung"
    /\ clean' = FALSE
    /\ UNCHANGED <<client, enable_polling, section_index, data, read_timeout,
                   timers, future, loop, reqs, events, cycle, notifs, lastParser,
                   cleanup, discovery>>
    /\ UNCHANGED ecoVars

\* connect: BLEManager.connect succeeded, the first request goes out
BaseClient_connect ==
    /\ client = "BaseClient" /\ loop = "running"
    /\ UNCHANGED <<mainVars, pureVars, histVars>>
    /\ \E tk \in BagToSet(tasks) :
         /\ tk.pc = "connect"
         /\ BaseClient_read_section(Resume(tasks, tk))
    /\ cycle' = cycle + 1
    /\ connection' = "connected"
    /\ UNCHANGED <<cleanup, discovery>>
    /\ UNCHANGED <<client, enable_polling, section_index, data, future, loop,
                   reqs, events, notifs, clean, lastParser>>
    /\ UNCHANGED ecoVars

\* characteristic_write_value: write_gatt_char returned
BLEManager_characteristic_write_value ==
    /\ client = "BaseClient" /\ loop = "running"
    /\ UNCHANGED <<mainVars, pureVars, histVars>>
    /\ UNCHANGED startVars
    /\ \E tk \in BagToSet(tasks) :
         /\ tk.pc = "write"
         /\ reqs' = Append(reqs, [sec |-> tk.sec, t |-> tk.t,
                                  answered |-> FALSE, cyc |-> cycle])
         /\ tasks' = Suspend(Resume(tasks, tk), Task("postwrite"))
    /\ UNCHANGED <<client, enable_polling, section_index, data, read_timeout,
                   timers, future, loop, events, cycle, notifs, clean, lastParser>>
    /\ UNCHANGED ecoVars

\* characteristic_write_value: write_gatt_char raised; read_section reports it
BaseClient_write_failed ==
    /\ client = "BaseClient" /\ loop = "running"
    /\ UNCHANGED <<mainVars, pureVars, histVars>>
    /\ UNCHANGED startVars
    /\ \E tk \in BagToSet(tasks) :
         /\ tk.pc = "write"
         /\ tasks' = Resume(tasks, tk)
    /\ BaseClient_on_error("write")
    /\ clean' = FALSE
    /\ UNCHANGED <<client, enable_polling, section_index, data, read_timeout,
                   timers, reqs, cycle, notifs, lastParser>>
    /\ UNCHANGED ecoVars

\* characteristic_write_value: the 0.5 s sleep after the write is over
BLEManager_post_write ==
    /\ client = "BaseClient" /\ loop = "running"
    /\ UNCHANGED <<mainVars, pureVars, histVars>>
    /\ UNCHANGED startVars
    /\ \E tk \in BagToSet(tasks) :
         /\ tk.pc = "postwrite"
         /\ tasks' = Resume(tasks, tk)
    /\ UNCHANGED <<client, enable_polling, section_index, data, read_timeout,
                   timers, future, loop, reqs, events, cycle, notifs, clean,
                   lastParser>>
    /\ UNCHANGED ecoVars

\* on_read_operation_complete: tag the map (then: the data callback)
OnReadOperationComplete(d, cyc) ==
    DictUpdate(DictUpdate(d, DEVICE_TAG, cyc), CLIENT_TAG, cyc)

\* "self.section_index >= len(self.sections) - 1": last section, read complete
LastSection(index) == index >= NumSections - 1

\* "operation == READ_SUCCESS or operation == READ_ERROR": the responses the
\* sequencer advances on
KnownOperationSuccessOnly(op) == op = READ_SUCCESS

KnownOperation(op) == op = READ_SUCCESS \/ op = READ_ERROR

\* on_data_received up to its first await, for a notification that answers
\* request r with operation byte op and length len
BaseClient_on_data_received(r, op, len, parserOutcome, cbOutcome) ==
    /\ client = "BaseClient" /\ loop = "running"
    /\ UNCHANGED <<mainVars, pureVars, fault, operation, app>>
    /\ response' = [op |-> op, lenOk |-> len = ResponseLen(section_index)]
    /\ UNCHANGED startVars
    /\ notifs < MaxNotifs
    /\ notifs' = notifs + 1
    /\ reqs' = [reqs EXCEPT ![r].answered = TRUE]
    /\ timers' = CancelTimer(timers, read_timeout)
    /\ LET valid == /\ op = READ_SUCCESS
                    /\ section_index < NumSections
                    /\ ResponseLen(section_index) = len
           parsed == IF valid
                     THEN SafeParser(data, section_index, cycle, parserOutcome)
                     ELSE [data |-> data, raised |-> FALSE]
           map == OnReadOperationComplete(parsed.data, cycle)
       IN  /\ lastParser' = IF valid THEN parserOutcome ELSE "none"
           /\ clean' = (/\ clean /\ valid /\ parserOutcome = "ok"
                        /\ r = Len(reqs) /\ ~reqs[r].answered)
           /\ IF KnownOperation(op)
              THEN IF parsed.raised
                   THEN \* the exception ends the handler
                        /\ data' = parsed.data
                        /\ UNCHANGED <<section_index, events, tasks>>
                   ELSE IF LastSection(section_index)
                   THEN /\ section_index' = 0
                        /\ events' = Append(events, DataEvent(map, cbOutcome))
                        /\ IF SafeCallback(cbOutcome).raised
                           THEN \* the exception ends the handler
                                data' = map /\ tasks' = tasks
                           ELSE /\ data' = {}
                                /\ tasks' = IF enable_polling
                                            THEN Suspend(tasks, Task("poll"))
                                            ELSE tasks
                   ELSE /\ section_index' = section_index + 1
                        /\ data' = parsed.data
                        /\ tasks' = Suspend(tasks, Task("sleep"))
                        /\ UNCHANGED events
              ELSE UNCHANGED <<section_index, data, events, tasks>>
    /\ UNCHANGED <<client, enable_polling, read_timeout, future, loop, cycle>>
    /\ UNCHANGED ecoVars

\* a transport notification: the peripheral answers a written request, for
\* the first time or again, well-formed or not
BaseClient_notification ==
    \E r \in 1 .. Len(reqs), op \in {READ_SUCCESS, READ_ERROR, UNKNOWN_OPERATION},
       lenOk \in BOOLEAN, po \in {"ok", "raise"}, co \in {"ok", "raise"} :
       BaseClient_on_data_received(r, op,
           IF lenOk THEN ResponseLen(reqs[r].sec) ELSE 5, po, co)

\* on_data_received after "await asyncio.sleep(0.5)": read the next section
BaseClient_next_section ==
    /\ client = "BaseClient" /\ loop = "running"
    /\ UNCHANGED <<mainVars, pureVars, histVars>>
    /\ UNCHANGED startVars
    /\ Len(timers) < MaxReqs
    /\ \E tk \in BagToSet(tasks) :
         /\ tk.pc = "sleep"
         /\ BaseClient_read_section(Resume(tasks, tk))
    /\ UNCHANGED <<client, enable_polling, section_index, data, future, loop,
                   reqs, events, cycle, notifs, clean, lastParser>>
    /\ UNCHANGED ecoVars

\* check_polling after "await asyncio.sleep(poll_interval)": next cycle
BaseClient_check_polling ==
    /\ client = "BaseClient" /\ loop = "running"
    /\ UNCHANGED <<mainVars, pureVars, histVars>>
    /\ UNCHANGED startVars
    /\ Len(timers) < MaxReqs /\ cycle < MaxCycles
    /\ \E tk \in BagToSet(tasks) :
         /\ tk.pc = "poll"
         /\ BaseClient_read_section(Resume(tasks, tk))
    /\ cycle' = cycle + 1
    /\ UNCHANGED <<client, enable_polling, section_index, data, future, loop,
                   reqs, events, notifs, clean, lastParser>>
    /\ UNCHANGED ecoVars

\* on_read_timeout: the timer armed by read_section fires
BaseClient_on_read_timeout ==
    /\ client = "BaseClient" /\ loop = "running"
    /\ UNCHANGED <<mainVars, pureVars, histVars>>
    /\ UNCHANGED startVars
    /\ \E k \in 1 .. Len(timers) :
         /\ timers[k] = "armed"
         /\ timers' = [timers EXCEPT ![k] = "fired"]
    /\ BaseClient_on_error("timeout")
    /\ clean' = FALSE
    /\ UNCHANGED <<client, enable_polling, section_index, data, read_timeout,
                   tasks, reqs, cycle, notifs, lastParser>>
    /\ UNCHANGED ecoVars

\* start: wait_for(self.future, 60) expires: the future is cancelled, the
\* error is reported, the loop is closed
BaseClient_application_timeout ==
    /\ client = "BaseClient" /\ loop = "running"
    /\ UNCHANGED <<mainVars, pureVars, histVars>>
    /\ UNCHANGED startVars
    /\ future = "PENDING"
    /\ events' = events \o ErrorEvents(1, "application")
    /\ future' = "CANCELLED"
    /\ loop' = "closed"
    /\ tasks' = CancelMainTask(tasks)
    /\ clean' = FALSE
    /\ UNCHANGED <<client, enable_polling, section_index, data, read_timeout,
                   timers, reqs, cycle, notifs, lastParser>>
    /\ UNCHANGED ecoVars

BaseNext ==
    \/ BaseClient_connect
    \/ BaseClient_connect_failed
    \/ BaseClient_connect_hangs
    \/ BLEManager_characteristic_write_value
    \/ BaseClient_on_read_timeout
    \/ BaseClient_write_failed
    \/ BLEManager_post_write
    \/ BaseClient_notification
    \/ BaseClient_next_section
    \/ BaseClient_check_polling
    \/ BaseClient_application_timeout

\* --------------------------------------------- EcoWorthyClient (vendor)
FRAME_HEADER == 221
FRAME_END == 119
OPERATION_BASIC_INFO == 3
OPERATION_CELLV_INFO == 4
UNKNOWN_FRAME_OPERATION == 5   \* an operation byte that is neither 3 nor 4

\* truth value of config["data"].get("read_cellv"): a text, or None if absent
ReadCellvEnabled == read_cellv # "absent"

\* bytes_to_int(self.frame, 1, 1)
Operation(f) == IF Len(f) < 2 THEN 0 ELSE f[2]

\* bytes_to_int(self.frame, 3, 1)
DataLength(f) == IF Len(f) < 4 THEN 0 ELSE f[4]

\* self.frame[4:-3]
Payload(f) == SubSeq(f, 5, Len(f) - 3)

\* the frame assembler: the buffer after delivery d arrived with buffer f
AssembleOverwrite(f, d) ==
    IF d[1] # FRAME_HEADER /\ f # <<>> THEN d
    ELSE IF d[1] = FRAME_HEADER THEN d
    ELSE f

AssembleAppend(f, d) ==
    IF f # <<>> THEN f \o d
    ELSE IF d[1] = FRAME_HEADER THEN d
    ELSE f

Assemble(f, d) ==
    IF d[1] # FRAME_HEADER /\ f # <<>> THEN f \o d
    ELSE IF d[1] = FRAME_HEADER THEN d
    ELSE f

\* the delivery ends a frame
EndsFrame(d) == d[Len(d)] = FRAME_END

\* the fields a decoded frame puts into the map
DecodeFrame(d, f, cyc) ==
    IF Operation(f) = OPERATION_BASIC_INFO
    THEN DictUpdate(d, OPERATION_BASIC_INFO, cyc)
    ELSE IF Operation(f) = OPERATION_CELLV_INFO /\ DataLength(f) \div 2 >= 1
    THEN DictUpdate(d, OPERATION_CELLV_INFO, cyc)
    ELSE d

\* __safe_callback of EcoWorthyClient: the consumer's exception is caught
EcoSafeCallback(outcome) == [raised |-> FALSE]

\* _main_task: "finally: await self._cleanup()" runs when the task ends
MainTaskNoFinally(done) == done

MainTaskFinally(done) == TRUE

\* __on_error raises RuntimeError after the error callback.  Raised inside
\* fetch_next (its except clause, line 196) by the coroutine tk, the exception
\* passes every fetch_next that awaits it through check_polling (each reports
\* it again) and reaches the coroutine at the bottom of the stack:
\* connect reports it again, then _run_with_timeout and start do, and
\* asyncio.run ends; a notification handler dies with it, before line 162.
EcoWorthyClient_raise(tk) ==
    /\ events' = events \o ErrorEvents(
                    tk.depth + 1 + IF tk.root = "connect" THEN 3 ELSE 0, "write")
    /\ loop' = IF tk.root = "connect" THEN "closed" ELSE loop
    /\ cleanup' = IF tk.root = "connect" THEN MainTaskFinally(cleanup) ELSE cleanup
    /\ tasks' = Resume(tasks, tk)

\* fetch_next returned to the coroutine at the bottom of the stack:
\* on_data_received goes on to line 162 (self.frame = None), connect returns
\* and _main_task waits for the stop event
EcoWorthyClient_return(tk) ==
    /\ frame' = IF tk.root = "handler" THEN <<>> ELSE frame
    /\ tasks' = IF tk.root = "connect"
                THEN Suspend(Resume(tasks, tk), Task("waitstop"))
                ELSE Resume(tasks, tk)

\* the times the error callback is called for one failure of BLEManager.connect:
\* by __on_connect_fail (twice when "not connected" is reported inside the try
\* block and its RuntimeError is caught by "except Exception"), by connect, by
\* _run_with_timeout and by start
EcoConnectReports(kind) == (IF kind = "not_connected" THEN 2 ELSE 1) + 3

\* connect: BLEManager.connect failed; __on_connect_fail raises, the exception
\* leaves connect, _main_task (cleanup), _run_with_timeout and start
EcoWorthyClient_connect_failed ==
    /\ client = "EcoWorthyClient" /\ loop = "running"
    /\ UNCHANGED <<mainVars, pureVars, histVars>>
    /\ \E tk \in BagToSet(tasks),
          kind \in {"timeout", "not_connected", "error", "error_up"} :
         /\ tk.pc = "connect"
         /\ tasks' = Resume(tasks, tk)
         /\ events' = events \o ErrorEvents(EcoConnectReports(kind), "connect")
         /\ connection' = IF kind = "error_up" THEN "failed_up" ELSE "failed"
    /\ cleanup' = MainTaskFinally(cleanup)
    /\ loop' = "closed"
    /\ UNCHANGED <<client, enable_polling, section_index, data, read_timeout,
                   timers, future, reqs, cycle, notifs, clean, lastParser,
                   discovery>>
    /\ UNCHANGED ecoVars

\* connect: BLEManager.connect never returns
EcoWorthyClient_connect_hangs ==
    /\ client = "EcoWorthyClient" /\ loop = "running"
    /\ UNCHANGED <<mainVars, pureVars, histVars>>
    /\ \E tk \in BagToSet(tasks) :
         /\ tk.pc = "connect"
         /\ tasks' = Suspend(Resume(tasks, tk),
                             [Task("connecting") EXCEPT !.root = "connect"])
    /\ connection' = "hung"
    /\ UNCHANGED <<client, enable_polling, section_index, data, read_timeout,
                   timers, future, loop, reqs, events, cycle, notifs, clean,
                   lastParser, cleanup, discovery>>
    /\ UNCHANGED ecoVars

\* connect: BLEManager.connect succeeded, fetch_next is awaited
EcoWorthyClient_connect ==
    /\ client = "EcoWorthyClient" /\ loop = "running"
    /\ UNCHANGED <<mainVars, pureVars, histVars>>
    /\ \E tk \in BagToSet(tasks) :
         /\ tk.pc = "connect"
         /\ tasks' = Suspend(Resume(tasks, tk),
                             [Task("fetch") EXCEPT !.root = "connect"])
    /\ cycle' = cycle + 1
    /\ connection' = "connected"
    /\ UNCHANGED <<cleanup, discovery>>
    /\ UNCHANGED <<client, enable_polling, section_index, data, read_timeout,
                   timers, future, loop, reqs, events, notifs, clean, lastParser>>
    /\ UNCHANGED ecoVars

NextCommandCellvFirst ==
    IF ~fetched_cellv /\ ReadCellvEnabled THEN 1
    ELSE IF ~fetched_basics THEN 0
    ELSE 2

\* the command fetch_next sends next: 0 basic info, 1 cell voltages, 2 none
NextCommand ==
    IF ~fetched_basics THEN 0
    ELSE IF ~fetched_cellv /\ ReadCellvEnabled THEN 1
    ELSE 2

\* fetch_next after "await asyncio.sleep(0.5)"
EcoWorthyClient_fetch_next(cbOutcome) ==
    /\ client = "EcoWorthyClient" /\ loop = "running"
    /\ UNCHANGED <<mainVars, pureVars, histVars>>
    /\ UNCHANGED startVars
    /\ \E tk \in BagToSet(tasks) :
         /\ tk.pc = "fetch"
         /\ IF NextCommand < 2
            THEN /\ Len(timers) < MaxReqs
                 /\ timers' = Append(timers, "armed")
                 /\ read_timeout' = Len(timers) + 1
                 /\ tasks' = Suspend(Resume(tasks, tk),
                        [tk EXCEPT !.pc = "write", !.sec = NextCommand,
                                   !.t = Len(timers) + 1])
                 /\ UNCHANGED <<data, events, fetched_basics, fetched_cellv,
                                frame, loop>>
            ELSE /\ IF EcoSafeCallback(cbOutcome).raised
                    THEN \* the exception is reported by fetch_next (line 196)
                         /\ events' = Append(events, DataEvent(data, cbOutcome))
                                      \o ErrorEvents(1, "callback")
                         /\ tasks' = Resume(tasks, tk)
                         /\ UNCHANGED <<data, fetched_basics, fetched_cellv, frame>>
                    ELSE /\ events' = Append(events, DataEvent(data, cbOutcome))
                         /\ fetched_basics' = FALSE
                         /\ fetched_cellv' = FALSE
                         /\ data' = {}
                         /\ IF enable_polling
                            THEN /\ tasks' = Suspend(Resume(tasks, tk),
                                                     [tk EXCEPT !.pc = "poll"])
                                 /\ frame' = frame
                            ELSE EcoWorthyClient_return(tk)
                 /\ UNCHANGED <<timers, read_timeout, loop>>
    /\ UNCHANGED <<client, enable_polling, section_index, future, reqs, cycle,
                   notifs, clean, lastParser, read_cellv, decoded, feed>>

\* check_polling after "await asyncio.sleep(poll_interval)": fetch_next again
EcoWorthyClient_check_polling ==
    /\ client = "EcoWorthyClient" /\ loop = "running"
    /\ UNCHANGED <<mainVars, pureVars, histVars>>
    /\ UNCHANGED startVars
    /\ cycle < MaxCycles
    /\ \E tk \in BagToSet(tasks) :
         /\ tk.pc = "poll"
         /\ tasks' = Suspend(Resume(tasks, tk),
                             [tk EXCEPT !.pc = "fetch", !.depth = tk.depth + 1])
    /\ cycle' = cycle + 1
    /\ UNCHANGED <<client, enable_polling, section_index, data, read_timeout,
                   timers, future, loop, reqs, events, notifs, clean, lastParser>>
    /\ UNCHANGED ecoVars

\* characteristic_write_bytes: write_gatt_char returned
EcoWorthyClient_write_ok ==
    /\ client = "EcoWorthyClient" /\ loop = "running"
    /\ UNCHANGED <<mainVars, pureVars, histVars>>
    /\ UNCHANGED startVars
    /\ \E tk \in BagToSet(tasks) :
         /\ tk.pc = "write"
         /\ reqs' = Append(reqs, [sec |-> tk.sec, t |-> tk.t,
                                  answered |-> FALSE, cyc |-> cycle])
         /\ tasks' = Suspend(Resume(tasks, tk), [tk EXCEPT !.pc = "postwrite"])
    /\ UNCHANGED <<client, enable_polling, section_index, data, read_timeout,
                   timers, future, loop, events, cycle, notifs, clean, lastParser>>
    /\ UNCHANGED ecoVars

\* characteristic_write_bytes: write_gatt_char raised; fetch_next reports it
EcoWorthyClient_write_failed ==
    /\ client = "EcoWorthyClient" /\ loop = "running"
    /\ UNCHANGED <<mainVars, pureVars, histVars>>
    /\ \E tk \in BagToSet(tasks) :
         /\ tk.pc = "write"
         /\ EcoWorthyClient_raise(tk)
    /\ UNCHANGED <<connection, discovery>>
    /\ UNCHANGED <<client, enable_polling, section_index, data, read_timeout,
                   timers, future, reqs, cycle, notifs, clean, lastParser>>
    /\ UNCHANGED ecoVars

\* characteristic_write_bytes: the 0.5 s sleep after the write is over and
\* fetch_next returns
EcoWorthyClient_post_write ==
    /\ client = "EcoWorthyClient" /\ loop = "running"
    /\ UNCHANGED <<mainVars, pureVars, histVars>>
    /\ UNCHANGED startVars
    /\ \E tk \in BagToSet(tasks) :
         /\ tk.pc = "postwrite"
         /\ EcoWorthyClient_return(tk)
    /\ UNCHANGED <<client, enable_polling, section_index, data, read_timeout,
                   timers, future, loop, reqs, events, cycle, notifs, clean, lastParser>>
    /\ UNCHANGED <<read_cellv, fetched_basics, fetched_cellv, decoded, feed>>

\* the exception that ends on_data_received for the delivery d: line 112 calls
\* done() on the None of a session that armed no timeout yet; lines 129-131
\* read and slice self.frame, which is None when an end marker arrives with
\* no frame in progress
HandlerFault(d) ==
    IF read_timeout = 0 THEN "AttributeError"
    ELSE IF EndsFrame(d) /\ Assemble(frame, d) = <<>> THEN "TypeError"
    ELSE "none"

HasDecoderAlways(op) == TRUE

\* "if operation == OPERATION_BASIC_INFO: ... elif operation ==
\* OPERATION_CELLV_INFO: ... else: logging.warning(unknown operation)"
HasDecoder(op) == op = OPERATION_BASIC_INFO \/ op = OPERATION_CELLV_INFO

\* "if frame_end == FRAME_END: operation = bytes_to_int(self.frame, 1, 1)":
\* the operation of the frame that the delivery d completes
CompletedOperation(d) ==
    IF HandlerFault(d) = "none" /\ EndsFrame(d)
    THEN Operation(Assemble(frame, d))
    ELSE -1

\* on_data_received up to its first await, for the delivery d
EcoWorthyClient_on_data_received(d) ==
    /\ client = "EcoWorthyClient" /\ loop = "running"
    /\ UNCHANGED <<mainVars, pureVars, response, app>>
    /\ UNCHANGED startVars
    /\ fault' = HandlerFault(d)
    /\ operation' = CompletedOperation(d)
    /\ IF read_timeout = 0
       THEN \* None.done(): AttributeError, the handler dies
            UNCHANGED <<timers, frame, data, fetched_basics, fetched_cellv,
                        decoded, tasks>>
       ELSE
       /\ timers' = CancelTimer(timers, read_timeout)
       /\ LET f == Assemble(frame, d)
          IN  IF ~EndsFrame(d)
              THEN /\ frame' = f
                   /\ UNCHANGED <<data, fetched_basics, fetched_cellv, decoded, tasks>>
              ELSE IF f = <<>>
              THEN \* bytes_to_int(None, 1, 1): TypeError, the handler dies
                   UNCHANGED <<frame, data, fetched_basics, fetched_cellv,
                               decoded, tasks>>
              ELSE IF HasDecoder(Operation(f))
              THEN /\ frame' = f
                   /\ data' = DecodeFrame(data, f, cycle)
                   /\ decoded' = Append(decoded, <<Operation(f), Payload(f)>>)
                   /\ fetched_basics' = (fetched_basics \/ Operation(f) = OPERATION_BASIC_INFO)
                   /\ fetched_cellv' = (fetched_cellv \/ Operation(f) = OPERATION_CELLV_INFO)
                   /\ tasks' = Suspend(tasks, [Task("fetch") EXCEPT !.root = "handler"])
              ELSE /\ frame' = <<>>
                   /\ UNCHANGED <<data, fetched_basics, fetched_cellv, decoded, tasks>>
    /\ UNCHANGED <<client, enable_polling, section_index, read_timeout, future,
                   loop, events, cycle, clean, lastParser, read_cellv>>

\* a vendor frame: header, operation, status, declared length, payload,
\* two trailing bytes, end marker
MakeFrame(op, payload, trailer) ==
    <<FRAME_HEADER, op, 0, Len(payload)>> \o payload \o trailer \o <<FRAME_END>>

\* the frame the free peripheral sends for operation op
VendorFrame(op) == MakeFrame(op, <<1, 2>>, <<0, 0>>)

\* what the peripheral may deliver in answer to request r: the whole frame,
\* a frame with an unknown operation, the first or the last part of the frame
Deliveries(r) ==
    LET F == VendorFrame(IF reqs[r].sec = 0 THEN OPERATION_BASIC_INFO
                         ELSE OPERATION_CELLV_INFO)
    IN  {F, VendorFrame(UNKNOWN_FRAME_OPERATION), SubSeq(F, 1, 5), SubSeq(F, 6, Len(F))}

\* a transport notification: the peripheral answers a written request
EcoWorthyClient_notification ==
    /\ notifs < MaxNotifs
    /\ \E r \in 1 .. Len(reqs) :
         /\ reqs' = [reqs EXCEPT ![r].answered = TRUE]
         /\ \E d \in Deliveries(r) : EcoWorthyClient_on_data_received(d)
    /\ notifs' = notifs + 1
    /\ feed' = feed

\* _check_timeout after "await asyncio.sleep(READ_TIMEOUT)": the error is
\* reported, and the RuntimeError of __on_error ends the timeout task
EcoWorthyClient_check_timeout ==
    /\ client = "EcoWorthyClient" /\ loop = "running"
    /\ UNCHANGED <<mainVars, pureVars, histVars>>
    /\ UNCHANGED startVars
    /\ \E k \in 1 .. Len(timers) :
         /\ timers[k] = "armed"
         /\ timers' = [timers EXCEPT ![k] = "fired"]
    /\ events' = events \o ErrorEvents(1, "timeout")
    /\ UNCHANGED <<client, enable_polling, section_index, data, read_timeout,
                   future, loop, tasks, reqs, cycle, notifs, clean, lastParser>>
    /\ UNCHANGED ecoVars

\* _run_with_timeout: wait_for(self._main_task(), 60) expires; __on_error
\* reports "Application timeout" and raises, start reports the RuntimeError
\* again, asyncio.run ends
EcoWorthyClient_application_timeout ==
    /\ client = "EcoWorthyClient" /\ loop = "running"
    /\ UNCHANGED <<mainVars, pureVars, histVars>>
    /\ events' = events \o ErrorEvents(2, "application")
    /\ loop' = "closed"
    /\ tasks' = CancelMainTask(tasks)
    /\ cleanup' = MainTaskFinally(cleanup)
    /\ UNCHANGED <<connection, discovery>>
    /\ UNCHANGED <<client, enable_polling, section_index, data, read_timeout,
                   timers, future, reqs, cycle, notifs, clean, lastParser>>
    /\ UNCHANGED ecoVars

EcoNext ==
    \/ EcoWorthyClient_connect
    \/ EcoWorthyClient_connect_failed
    \/ EcoWorthyClient_connect_hangs
    \/ \E co \in {"ok", "raise"} : EcoWorthyClient_fetch_next(co)
    \/ EcoWorthyClient_check_polling
    \/ EcoWorthyClient_write_ok
    \/ EcoWorthyClient_check_timeout
    \/ EcoWorthyClient_write_failed
    \/ EcoWorthyClient_post_write
    \/ EcoWorthyClient_notification
    \/ EcoWorthyClient_application_timeout

\* ------------------------------------------------------------ the codecs
\* The pure functions of the two protocols, applied to arguments drawn from
\* bounded sets.  An optional argument is a sequence of length 0 (None) or 1;
\* a request that was not produced (None) is the empty sequence.

\* bit i of a
Bit(a, i) == (a \div (2 ^ i)) % 2

\* a ^ b on 16-bit values
Xor(a, b) ==
    LET x(i) == ((Bit(a, i) + Bit(b, i)) % 2) * (2 ^ i)
    IN  x(0) + x(1) + x(2) + x(3) + x(4) + x(5) + x(6) + x(7)
        + x(8) + x(9) + x(10) + x(11) + x(12) + x(13) + x(14) + x(15)

\* CRC16 (Modbus): polynomial 0xA001, the register shifted right 8 times per
\* byte
CRC_POLYNOMIAL == 40961
CRC_INITIAL == 65535

RECURSIVE CrcShift(_, _)
CrcShift(crc, n) ==
    IF n = 0 THEN crc
    ELSE IF crc % 2 = 1 THEN CrcShift(Xor(crc \div 2, CRC_POLYNOMIAL), n - 1)
    ELSE CrcShift(crc \div 2, n - 1)

RECURSIVE CrcRegister(_, _)
CrcRegister(crc, bytes) ==
    IF bytes = <<>> THEN crc
    ELSE CrcRegister(CrcShift(Xor(crc, Head(bytes)), 8), Tail(bytes))

\* crc16_modbus: the two bytes of the register, low byte first
Crc16Modbus(bytes) ==
    LET crc == CrcRegister(CRC_INITIAL, bytes)
    IN  <<crc % 256, crc \div 256>>

\* int_to_bytes(i, pos): byte pos of the 16-bit value, 0 = high, 1 = low
IntToBytes(i, pos) == IF pos = 0 THEN (i \div 256) % 256 ELSE i % 256

CreateGenericReadRequestLowFirst(device_id, function, regAddr, readWrd) ==
    IF regAddr # <<>> /\ readWrd # <<>>
    THEN LET header == <<device_id, function,
                         IntToBytes(regAddr[1], 1), IntToBytes(regAddr[1], 0),
                         IntToBytes(readWrd[1], 1), IntToBytes(readWrd[1], 0)>>
         IN  header \o Crc16Modbus(header)
    ELSE <<>>

\* create_generic_read_request
CreateGenericReadRequest(device_id, function, regAddr, readWrd) ==
    IF regAddr # <<>> /\ readWrd # <<>>
    THEN LET header == <<device_id, function,
                         IntToBytes(regAddr[1], 0), IntToBytes(regAddr[1], 1),
                         IntToBytes(readWrd[1], 0), IntToBytes(readWrd[1], 1)>>
         IN  header \o Crc16Modbus(header)
    ELSE <<>>

\* the arguments the requests are built from
DeviceIds == {1, 97, 255}
FunctionCodes == {3, 6}
Registers == {<<>>, <<0>>, <<255>>, <<256>>, <<5000>>, <<65535>>}
WordCounts == {<<>>, <<1>>, <<8>>, <<256>>, <<65535>>}

BaseClient_create_generic_read_request ==
    /\ ~request.built
    /\ request' = [request EXCEPT
                     !.built = TRUE,
                     !.data = CreateGenericReadRequest(request.device_id,
                                  request.function, request.regAddr,
                                  request.readWrd)]
    /\ UNCHANGED <<mainVars, sessionVars, info>>

NoCodec ==
    /\ request = [device_id |-> 0, function |-> 0, regAddr |-> <<>>,
                  readWrd |-> <<>>, built |-> FALSE, data |-> <<>>]
    /\ info = [payload |-> <<>>, decoded |-> FALSE, capacity_remaining |-> 0,
               capacity |-> 0, percentage |-> 0, fault |-> FALSE]

\* the state after construction and start(): the main task is about to connect
Constructed ==
    /\ client \in {"BaseClient", "EcoWorthyClient"}
    /\ enable_polling \in BOOLEAN
    /\ section_index = 0
    /\ data = {}
    /\ read_timeout = 0
    /\ timers = <<>>
    /\ future = "PENDING"
    /\ loop = "running"
    /\ tasks = SetToBag({Task("connect")})
    /\ reqs = <<>>
    /\ events = <<>>
    /\ cycle = 0
    /\ notifs = 0
    /\ clean = TRUE
    /\ lastParser = "none"
    /\ read_cellv \in IF client = "BaseClient" THEN {"absent"}
                     ELSE {"absent", "false", "true"}
    /\ fetched_basics = FALSE
    /\ fetched_cellv = FALSE
    /\ frame = <<>>
    /\ decoded = <<>>
    /\ connection = "none"
    /\ cleanup = FALSE
    /\ discovery = "none"
    /\ response = [op |-> 0, lenOk |-> FALSE]
    /\ fault = "none"
    /\ operation = -1
    /\ app = [calls |-> 0, raised |-> "none"]

\* the scheduler is not part of a session started by start()
NoScheduler ==
    /\ devs = <<>>
    /\ main = [phase |-> "none", i |-> 0, round |-> 0, error |-> "none"]
    /\ periodic = FALSE
    /\ clock = [now |-> 0, interval |-> 0, start_time_ms |-> 0,
                wait_time_ms |-> 0]

\* the free peripheral has no script
Init == Constructed /\ NoScheduler /\ NoCodec /\ feed = [sent |-> <<>>, rest |-> <<>>]

Next == BaseNext \/ EcoNext

Spec == Init /\ [][Next]_vars

\* the register session alone
InitBase == Init /\ client = "BaseClient"

SpecBase == InitBase /\ [][BaseNext]_vars

\* the vendor session alone
InitEco == Init /\ client = "EcoWorthyClient"

SpecEco == InitEco /\ [][EcoNext]_vars

\* -------------------------------- the start of a session, silent peripheral
\* start() up to the first request: the connect and its outcomes, the first
\* write, the per-request timeout and the application deadline.  The
\* deadline of wait_for always expires while the session runs, and a step
\* that is due is taken: weak fairness of the steps.
NextStart ==
    \/ BaseClient_connect
    \/ BaseClient_connect_failed
    \/ BaseClient_connect_hangs
    \/ BLEManager_characteristic_write_value
    \/ BaseClient_write_failed
    \/ BLEManager_post_write
    \/ BaseClient_on_read_timeout
    \/ BaseClient_application_timeout
    \/ EcoWorthyClient_connect
    \/ EcoWorthyClient_connect_failed
    \/ EcoWorthyClient_connect_hangs
    \/ \E co \in {"ok", "raise"} : EcoWorthyClient_fetch_next(co)
    \/ EcoWorthyClient_write_ok
    \/ EcoWorthyClient_write_failed
    \/ EcoWorthyClient_post_write
    \/ EcoWorthyClient_check_timeout
    \/ EcoWorthyClient_application_timeout

SpecStart == Init /\ [][NextStart]_vars /\ WF_vars(NextStart)

\* ------------------------------ the register session and its application
\* The application calls stop() and disconnect() on a session started with
\* start(), at any time: from a callback, from a task of its own, or after
\* start() has returned.

\* asyncio.Future.set_result: InvalidStateError when the future is done
SetResult(f, result) ==
    IF f = "PENDING" THEN [future |-> result, raised |-> "none"]
    ELSE [future |-> f, raised |-> "InvalidStateError"]

\* stop(): cancel the pending timeout; with the loop open schedule
\* _cleanup_and_stop, otherwise resolve the future if it is still pending
BaseClient_stop ==
    /\ client = "BaseClient" /\ app.calls < MaxCalls
    /\ timers' = CancelTimer(timers, read_timeout)
    /\ IF loop = "running"
       THEN /\ tasks' = Suspend(tasks, Task("cleanup"))
            /\ future' = future
       ELSE /\ tasks' = tasks
            /\ future' = EnsureFutureResolved(future, "STOPPED")
    /\ app' = [calls |-> app.calls + 1, raised |-> "none"]
    /\ UNCHANGED <<client, enable_polling, section_index, data, read_timeout,
                   loop, reqs, events, cycle, notifs, clean, lastParser>>
    /\ UNCHANGED <<ecoVars, startVars, mainVars, pureVars, response, fault,
                   operation>>

\* _cleanup_and_stop: the transport is disconnected (an exception is logged),
\* then the future is resolved if it is still pending
BaseClient_cleanup_and_stop ==
    /\ client = "BaseClient" /\ loop = "running"
    /\ \E tk \in BagToSet(tasks) :
         /\ tk.pc = "cleanup"
         /\ tasks' = Resume(tasks, tk)
    /\ future' = EnsureFutureResolved(future, "STOPPED")
    /\ loop' = LoopAfter(future')
    /\ UNCHANGED <<client, enable_polling, section_index, data, read_timeout,
                   timers, reqs, events, cycle, notifs, clean, lastParser>>
    /\ UNCHANGED <<ecoVars, startVars, mainVars, pureVars, histVars>>

\* disconnect(): "await self.ble_manager.disconnect()", which fails on the
\* None of a session that has not run connect and may fail in the transport,
\* then "self.future.set_result('DONE')"
BaseClient_disconnect ==
    /\ client = "BaseClient" /\ app.calls < MaxCalls
    /\ \E outcome \in IF connection = "none" THEN {"AttributeError"}
                       ELSE {"ok", "BleakError"} :
         LET set == IF outcome = "ok" THEN SetResult(future, "DONE")
                    ELSE [future |-> future, raised |-> outcome]
         IN  /\ future' = set.future
             /\ app' = [calls |-> app.calls + 1, raised |-> set.raised]
    /\ loop' = LoopAfter(future')
    /\ UNCHANGED <<client, enable_polling, section_index, data, read_timeout,
                   timers, tasks, reqs, events, cycle, notifs, clean, lastParser>>
    /\ UNCHANGED <<ecoVars, startVars, mainVars, pureVars, response, fault,
                   operation>>

\* start(): an exception of its finally block (the cancelled main task, the
\* close of the loop) is reported by "except Exception: self.__on_error(e)"
\* after the loop has ended
BaseClient_start_failed ==
    /\ client = "BaseClient" /\ loop = "closed" /\ app.calls < MaxCalls
    /\ events' = events \o ErrorEvents(1, "start")
    /\ future' = EnsureFutureResolved(future, "ERROR")
    /\ app' = [calls |-> app.calls + 1, raised |-> "none"]
    /\ UNCHANGED <<client, enable_polling, section_index, data, read_timeout,
                   timers, loop, tasks, reqs, cycle, notifs, clean, lastParser>>
    /\ UNCHANGED <<ecoVars, startVars, mainVars, pureVars, response, fault,
                   operation>>

NextStop ==
    \/ BaseNext
    \/ BaseClient_stop
    \/ BaseClient_cleanup_and_stop
    \/ BaseClient_disconnect
    \/ BaseClient_start_failed

SpecStop == InitBase /\ [][NextStop]_vars

\* ------------------------------ the vendor session with a scripted peripheral
\* The peripheral answers the first request with one frame, in one delivery
\* or in three; nothing fails and no timeout fires.

\* the bytes a scripted frame is made of: the two markers and a plain byte
FrameBytes == {FRAME_HEADER, FRAME_END, 1}

SeqsOfLen(S, n) == [1 .. n -> S]

ScriptedFrames ==
    {MakeFrame(op, p, t) :
        op \in {OPERATION_BASIC_INFO, OPERATION_CELLV_INFO},
        p \in UNION {SeqsOfLen(FrameBytes, n) : n \in 1 .. MaxPayload},
        t \in SeqsOfLen(FrameBytes, 2)}

\* frame F in three consecutive non-empty deliveries
Splits(F) ==
    {<<SubSeq(F, 1, ab[1]), SubSeq(F, ab[1] + 1, ab[2]),
       SubSeq(F, ab[2] + 1, Len(F))>> :
        ab \in {c \in (1 .. Len(F) - 2) \X (2 .. Len(F) - 1) : c[1] < c[2]}}

\* a notification of the scripted peripheral: the next delivery of the frame
EcoWorthyClient_feed ==
    /\ reqs # <<>> /\ feed.rest # <<>>
    /\ EcoWorthyClient_on_data_received(Head(feed.rest))
    /\ feed' = [sent |-> Append(feed.sent, Head(feed.rest)),
                rest |-> Tail(feed.rest)]
    /\ UNCHANGED <<reqs, notifs>>

InitFrame ==
    /\ Constructed /\ NoScheduler /\ NoCodec
    /\ client = "EcoWorthyClient" /\ ~enable_polling
    /\ \E F \in ScriptedFrames :
         feed \in {[sent |-> <<>>, rest |-> ds] : ds \in {<<F>>} \cup Splits(F)}

NextFrame ==
    \/ EcoWorthyClient_connect
    \/ \E co \in {"ok", "raise"} : EcoWorthyClient_fetch_next(co)
    \/ EcoWorthyClient_write_ok
    \/ EcoWorthyClient_post_write
    \/ EcoWorthyClient_feed

SpecFrame == InitFrame /\ [][NextFrame]_vars

\* ------------------------------------------------- the scheduler, example.main
\* main drives the sessions of the device list: it connects each, reads each
\* once (or once per round), and disconnects each in its finally block.  A
\* session is a record here: its class (type), the outcome of its connect
\* (conn), the number of poll cycles started on it (cycles), the number of
\* read() calls (reads), the outcome of the last read (last) and of its
\* disconnect (disc).

\* the deadline of one read and the least inter-cycle sleep, in ms
READ_DEADLINE_MS == 30000
MIN_WAIT_MS == 1000

\* how long a read that returns may take, in ms
ReadTimes == {0, 2000, 4500}

\* the configured poll intervals, in s
Intervals == {1, 5}

Max(a, b) == IF a >= b THEN a ELSE b

Session(type) ==
    [type |-> type, conn |-> "none", cycles |-> 0, reads |-> 0,
     last |-> "none", disc |-> "none"]

\* the exception leaves the try block: main goes to its finally block
Shutdown(m, why) == [m EXCEPT !.phase = "shutdown", !.i = 1, !.error = why]

\* the for loop over the devices is done with device i
AfterDevice(m, then) ==
    IF m.i < NumDevices THEN [m EXCEPT !.i = m.i + 1]
    ELSE [m EXCEPT !.phase = then, !.i = 1]

\* await asyncio.wait_for(device.connect(), 35.0): a connect that succeeds
\* goes on to the first read request before it returns; a failed connect
\* raises out of the error handler; a connect still pending at the deadline
\* is cancelled and TimeoutError raised
Main_connect ==
    /\ main.phase = "connect"
    /\ \E outcome \in {"connected", "failed", "timeout"} :
         /\ devs' = [devs EXCEPT ![main.i].conn = outcome,
                        ![main.i].cycles =
                            IF outcome = "connected" THEN @ + 1 ELSE @]
         /\ main' = IF outcome = "connected" THEN AfterDevice(main, "read")
                    ELSE Shutdown(main, "connect")
         /\ clock' = IF outcome = "connected" /\ main.i = NumDevices
                     THEN [clock EXCEPT !.start_time_ms = clock.now]
                     ELSE clock
    /\ UNCHANGED <<periodic, sessionVars, pureVars>>

\* await asyncio.wait_for(device.read(), 30.0): read runs one poll cycle and
\* delivers the map or the error; a cycle not done at the deadline is
\* cancelled and TimeoutError raised
Main_read ==
    /\ main.phase = "read"
    /\ \E outcome \in {"ok", "failed", "timeout"} :
       \E t \in IF outcome = "timeout" THEN {READ_DEADLINE_MS} ELSE ReadTimes :
         /\ devs' = [devs EXCEPT ![main.i].reads = @ + 1,
                                 ![main.i].cycles = @ + 1,
                                 ![main.i].last = outcome]
         /\ clock' = [clock EXCEPT !.now = @ + t]
         /\ main' = IF outcome = "timeout" THEN Shutdown(main, "read")
                    ELSE IF periodic THEN AfterDevice(main, "sleep")
                    ELSE AfterDevice(main, "shutdown")
    /\ UNCHANGED <<periodic, sessionVars, pureVars>>

WaitTimeNoFloor(interval, start_time_ms, current_time_ms) ==
    interval * 1000 + start_time_ms - current_time_ms

\* wait_time_ms = max(1000, interval * 1000 + start_time_ms - current_time_ms)
WaitTime(interval, start_time_ms, current_time_ms) ==
    Max(MIN_WAIT_MS, interval * 1000 + start_time_ms - current_time_ms)

\* the round is read: main computes the wait and goes to sleep
Main_sleep ==
    /\ main.phase = "sleep"
    /\ clock' = [clock EXCEPT !.wait_time_ms =
                    WaitTime(clock.interval, clock.start_time_ms, clock.now)]
    /\ main' = [main EXCEPT !.phase = "sleeping"]
    /\ UNCHANGED <<devs, periodic, sessionVars, pureVars>>

\* the sleep is over: the next round starts
Main_wake ==
    /\ main.phase = "sleeping"
    /\ main.round < MaxRounds
    /\ clock' = [clock EXCEPT !.now = @ + clock.wait_time_ms,
                              !.start_time_ms = clock.now + clock.wait_time_ms]
    /\ main' = [main EXCEPT !.phase = "read", !.i = 1, !.round = @ + 1]
    /\ UNCHANGED <<devs, periodic, sessionVars, pureVars>>

\* asyncio.run cancels main on KeyboardInterrupt: the sleep raises
Main_interrupt ==
    /\ main.phase = "sleeping"
    /\ main' = Shutdown(main, "interrupt")
    /\ UNCHANGED <<devs, clock, periodic, sessionVars, pureVars>>

\* the outcomes of device.disconnect() under its deadline: BaseClient of a
\* session that never ran connect has no ble_manager and raises; the vendor
\* client guards that case; otherwise the transport may disconnect, raise or
\* hang
DisconnectOutcomes(d) ==
    IF d.conn = "none"
    THEN IF d.type = "BaseClient" THEN {"raised"} ELSE {"ok"}
    ELSE {"ok", "raised", "timeout"}

\* finally: for device in devices: await wait_for(device.disconnect(), 5.0);
\* an exception of one disconnect leaves the loop and main
Main_disconnect ==
    /\ main.phase = "shutdown"
    /\ \E outcome \in DisconnectOutcomes(devs[main.i]) :
         /\ devs' = [devs EXCEPT ![main.i].disc = outcome]
         /\ main' = IF outcome = "ok" THEN AfterDevice(main, "stopped")
                    ELSE [main EXCEPT !.phase = "stopped",
                                      !.error = "disconnect"]
    /\ UNCHANGED <<clock, periodic, sessionVars, pureVars>>

\* the sessions of the scheduler are the records of devs; no session runs
\* under start()
NoSession ==
    /\ client = "BaseClient" /\ enable_polling = FALSE
    /\ section_index = 0 /\ data = {} /\ read_timeout = 0 /\ timers = <<>>
    /\ future = "PENDING" /\ loop = "closed" /\ tasks = EmptyBag
    /\ reqs = <<>> /\ events = <<>> /\ cycle = 0 /\ notifs = 0
    /\ clean = TRUE /\ lastParser = "none"
    /\ read_cellv = "absent" /\ fetched_basics = FALSE
    /\ fetched_cellv = FALSE /\ frame = <<>> /\ decoded = <<>>
    /\ feed = [sent |-> <<>>, rest |-> <<>>]
    /\ connection = "none" /\ cleanup = FALSE /\ discovery = "none"
    /\ response = [op |-> 0, lenOk |-> FALSE] /\ fault = "none"
    /\ operation = -1 /\ app = [calls |-> 0, raised |-> "none"]

InitMain ==
    /\ NoSession /\ NoCodec
    /\ devs \in [1 .. NumDevices ->
                   {Session(ty) : ty \in {"BaseClient", "EcoWorthyClient"}}]
    /\ main = [phase |-> "connect", i |-> 1, round |-> 0, error |-> "none"]
    /\ periodic \in BOOLEAN
    /\ clock \in {[now |-> 0, interval |-> n, start_time_ms |-> 0,
                   wait_time_ms |-> 0] : n \in Intervals}

NextMain ==
    \/ Main_connect
    \/ Main_read
    \/ Main_sleep
    \/ Main_wake
    \/ Main_interrupt
    \/ Main_disconnect

SpecMain == InitMain /\ [][NextMain]_vars

\* ---------------------------------------------------- the codecs, applied
\* bytes_to_int(bs, offset, length): the unsigned big-endian value of the
\* bytes, 0 when the bytes are not all there
RECURSIVE BytesToInt(_, _, _)
BytesToInt(bs, offset, length) ==
    IF Len(bs) < offset + length THEN 0
    ELSE IF length = 0 THEN 0
    ELSE 256 * BytesToInt(bs, offset, length - 1) + bs[offset + length]

\* "0 if data['capacity'] == 0 else 100.0 * data['capacity_remaining'] /
\* data['capacity']"; fault = the division raised ZeroDivisionError
PercentageUnguarded(capacity_remaining, capacity) ==
    [value |-> IF capacity = 0 THEN 0
               ELSE (100 * capacity_remaining) \div capacity,
     fault |-> capacity = 0]

Percentage(capacity_remaining, capacity) ==
    [value |-> IF capacity = 0 THEN 0
               ELSE (100 * capacity_remaining) \div capacity,
     fault |-> FALSE]

\* the capacity fields of the basic-info decode, in units of 0.01 Ah
BasicInfo(payload) ==
    LET capacity_remaining == BytesToInt(payload, 4, 2)
        capacity == BytesToInt(payload, 4, 2)
        percentage == Percentage(capacity_remaining, capacity)
    IN  [payload |-> payload, decoded |-> TRUE,
         capacity_remaining |-> capacity_remaining, capacity |-> capacity,
         percentage |-> percentage.value, fault |-> percentage.fault]

\* the bytes of the capacity field of a payload
CapacityBytes == {0, 1, 255}

\* basic-info payloads up to the capacity fields: voltage, current, and the
\* two 2-byte fields that follow them (remaining capacity, total capacity)
BasicPayloads ==
    {<<4, 236, 255, 206, hi, lo, thi, tlo>> : hi, lo, thi, tlo \in CapacityBytes}

\* on_data_received, the basic-info branch
EcoWorthyClient_basic_info ==
    /\ ~info.decoded
    /\ info' = BasicInfo(info.payload)
    /\ UNCHANGED <<mainVars, sessionVars, request>>

InitCodec ==
    /\ NoSession /\ NoScheduler
    /\ request \in {[device_id |-> id, function |-> fn, regAddr |-> a,
                     readWrd |-> w, built |-> FALSE, data |-> <<>>] :
                       id \in DeviceIds, fn \in FunctionCodes,
                       a \in Registers, w \in WordCounts}
    /\ info \in {[payload |-> p, decoded |-> FALSE, capacity_remaining |-> 0,
                  capacity |-> 0, percentage |-> 0, fault |-> FALSE] :
                    p \in BasicPayloads}

NextCodec ==
    \/ BaseClient_create_generic_read_request
    \/ EcoWorthyClient_basic_info

SpecCodec == InitCodec /\ [][NextCodec]_vars

\* ------------------------------------------------------------ properties

NewEvents == {i \in 1 .. Len(events') : i > Len(events)}

ArmedTimeout == \E k \in 1 .. Len(timers) : timers[k] = "armed"

\* a coroutine of the sequencer is suspended and will go on
ActiveTask ==
    \E tk \in BagToSet(tasks) :
        tk.pc \in {"connect", "sleep", "fetch", "write", "postwrite", "poll"}

\* the current cycle has written a request and has delivered no event yet
CycleInProgress ==
    /\ loop = "running"
    /\ \E r \in 1 .. Len(reqs) : reqs[r].cyc = cycle
    /\ \A i \in 1 .. Len(events) : events[i].cyc # cycle

\* the events of cycle c, the application deadline (which ends the session,
\* not a cycle) aside
CycleEvents(c) ==
    {i \in 1 .. Len(events) : events[i].cyc = c /\ events[i].why # "application"}

\* C1: in every reachable state at most one request of the session is in
\* flight (written, not answered, not timed out).
C1_AtMostOneInFlight ==
    Cardinality({r \in 1 .. Len(reqs) : InFlight(r)}) <= 1

\* C2: no reachable state has a cycle in progress while no per-request
\* timeout is armed and no coroutine of the sequencer is left to act.
C2_NoStalledCycle ==
    ~(CycleInProgress /\ ~ArmedTimeout /\ ~ActiveTask)

\* C3 as claimed: the consumer never sees the map of a cycle that is still
\* in progress: when the data callback is called, every section (register) or
\* command (vendor) of the cycle has been requested and answered.
C3_MapOnlyOfFinishedCycle ==
    [][(\E i \in NewEvents : events'[i].kind = "data") =>
         \A k \in IF client = "BaseClient" THEN Sections
                   ELSE IF ReadCellvEnabled THEN {0, 1} ELSE {0} :
             \E r \in 1 .. Len(reqs') :
                 reqs'[r].cyc = cycle /\ reqs'[r].sec = k /\ reqs'[r].answered]_vars

\* C4: whenever a poll cycle ends (an event of the cycle is delivered: the
\* result map, or a failure such as the per-request timeout), the
\* cycle-tracking state is back at its initial value.
C4_ResetAtCycleEnd ==
    [][(\E i \in NewEvents : events'[i].why # "application") =>
         (section_index' = 0 /\ ~fetched_basics' /\ ~fetched_cellv')]_vars

\* C5: register protocol: when every request got one well-formed success
\* response, in order, the requests of a cycle are the sections 0..N-1 in
\* order, every N responses give one completion event whose map holds the
\* fields of all N sections (decoded in that cycle), and a finished cycle
\* leaves the section index at 0.
C5_SuccessfulCycle ==
    (client = "BaseClient" /\ clean) =>
        /\ \A j \in 1 .. Len(reqs) :
             /\ reqs[j].sec = (j - 1) % NumSections
             /\ reqs[j].cyc = ((j - 1) \div NumSections) + 1
        /\ Len(events) = notifs \div NumSections
        /\ \A i \in 1 .. Len(events) :
             /\ events[i].kind = "data"
             /\ events[i].map = {<<k, i>> : k \in Sections \cup {DEVICE_TAG, CLIENT_TAG}}
        /\ section_index = notifs % NumSections

C5_Witness ==
    /\ client = "BaseClient" /\ clean
    /\ notifs = NumSections /\ Len(events) = 1 /\ section_index = 0

\* C6: register protocol: once the per-request timeout has fired, exactly one
\* failure event has been reported, and after it no timeout is armed, no
\* request is written and no notification is handled.
C6_TimeoutEndsCycle ==
    [][(client = "BaseClient" /\ \E k \in 1 .. Len(timers') : timers'[k] = "fired") =>
         /\ Cardinality({i \in 1 .. Len(events') : events'[i].kind = "error"}) = 1
         /\ Len(timers') = Len(timers)
         /\ Len(reqs') = Len(reqs)
         /\ notifs' = notifs]_vars

C6_Witness ==
    /\ client = "BaseClient"
    /\ \E r \in 1 .. Len(reqs) : reqs[r].sec = 1 /\ timers[reqs[r].t] = "fired"
    /\ Len(events) = 1 /\ events[1].why = "timeout"

\* C7: each poll cycle delivers at most one event to the consumer: never a
\* result map and an error, never the same failure twice.
C7_OneEventPerCycle ==
    \A c \in 1 .. cycle : Cardinality(CycleEvents(c)) <= 1

\* the bytes of the scripted frame, delivered or not
Flatten(ds) ==
    IF ds = <<>> THEN <<>>
    ELSE IF Len(ds) = 1 THEN ds[1]
    ELSE ds[1] \o ds[2] \o ds[3]

\* what one frame F is to hand to the decoder: its operation and the payload
\* of its declared length
Expected(F) == << <<F[2], SubSeq(F, 5, 4 + F[4])>> >>

\* no delivery after the first begins with the header marker, no delivery
\* before the last ends with the end marker
CleanSplit(ds) ==
    /\ \A i \in 2 .. Len(ds) : ds[i][1] # FRAME_HEADER
    /\ \A i \in 1 .. Len(ds) - 1 : ds[i][Len(ds[i])] # FRAME_END

FrameDelivered == feed.sent # <<>> /\ feed.rest = <<>>

\* C8 as claimed: a valid frame, delivered whole or in three consecutive
\* non-empty fragments, hands the same (operation, payload) to the decoder
\* exactly once, whatever its content and wherever it is split.
C8_AnySplitDecodesOnce ==
    FrameDelivered => decoded = Expected(Flatten(feed.sent))

\* C8 amended: the same, for the splits in which no fragment after the first
\* begins with the header byte and no fragment before the last ends with the
\* end byte.
C8_CleanSplitDecodesOnce ==
    (FrameDelivered /\ CleanSplit(feed.sent)) =>
        decoded = Expected(Flatten(feed.sent))

\* three fragments, marker bytes inside the payload, one hand-off
C8_Witness ==
    /\ FrameDelivered /\ Len(feed.sent) = 3 /\ CleanSplit(feed.sent)
    /\ Flatten(feed.sent)[5] = FRAME_END
    /\ Len(decoded) = 1

\* C11: every result map delivered to the consumer carries the device alias
\* tag and the client name tag.
C11_MapsCarryTags ==
    \A i \in 1 .. Len(events) :
        events[i].kind = "data" =>
            {DEVICE_TAG, CLIENT_TAG} \subseteq Keys(events[i].map)

ConnectFailed == connection \in {"failed", "failed_up"}

\* C15: a session whose connect failed gets no read attempt: no per-request
\* timeout is armed, no request is being written or has been written.
C15_NoReadAfterConnectFailure ==
    ConnectFailed =>
        /\ timers = <<>> /\ reqs = <<>>
        /\ \A tk \in BagToSet(tasks) : tk.pc # "write"

\* C16: when the direct connect has failed with the link down, the session
\* does not end before it has run the discovery.
C16_DiscoveryAfterFailedConnect ==
    (connection = "failed" /\ loop = "closed") => discovery # "none"

\* C19: vendor client: once the connection has failed, start() has ended
\* (the loop is closed), the error callback has been called and the
\* cleanup has run.
C19_StartEndsOnConnectFailure ==
    (client = "EcoWorthyClient" /\ ConnectFailed) =>
        /\ loop = "closed"
        /\ cleanup
        /\ \E i \in 1 .. Len(events) : events[i].kind = "error"

C19_Witness ==
    /\ client = "EcoWorthyClient" /\ connection = "failed"
    /\ loop = "closed" /\ cleanup /\ Len(events) = 5

\* C20: when the transport connect never returns, the only step the session
\* takes is the application deadline: it cancels the main task, runs the
\* cleanup (vendor client), reports the application timeout and ends start().
C20_DeadlineEndsHungConnect ==
    [][(connection = "hung" /\ loop = "running") =>
         /\ loop' = "closed"
         /\ \E i \in NewEvents : events'[i].why = "application"
         /\ \A tk \in BagToSet(tasks') : tk.pc # "connecting"
         /\ client = "EcoWorthyClient" => cleanup']_vars
    /\ ((connection = "hung") ~> (loop = "closed"))

C20_Witness ==
    /\ connection = "hung" /\ loop = "closed" /\ client = "EcoWorthyClient"
    /\ cleanup /\ Len(events) = 2

\* C9: register protocol: when the section parser raises while a success
\* response is processed, the sequencer advances as for a parsed section:
\* the next section is read after the pause, or, on the last section, the
\* cycle completes with a map that lacks that section's fields.
C9_ParserExceptionIsolated ==
    [][(client = "BaseClient" /\ notifs' = notifs + 1 /\ lastParser' = "raise") =>
         IF section_index >= NumSections - 1
         THEN /\ section_index' = 0
              /\ Len(events') = Len(events) + 1
              /\ events'[Len(events')].kind = "data"
              /\ Keys(events'[Len(events')].map) =
                     Keys(data) \cup {DEVICE_TAG, CLIENT_TAG}
         ELSE /\ section_index' = section_index + 1
              /\ tasks' = Suspend(tasks, Task("sleep"))
              /\ data' = data
              /\ events' = events]_vars

C9_Witness ==
    /\ client = "BaseClient" /\ lastParser = "raise"
    /\ Len(events) = 1 /\ events[1].kind = "data"
    /\ Keys(events[1].map) = {0, DEVICE_TAG, CLIENT_TAG}

\* C10: when the consumer's data callback raises at cycle completion, the
\* cycle state is reset as when it returns: index 0 / flags false, map
\* empty, no error reported, and the sequencer goes on to check_polling.
C10_CallbackExceptionIsolated ==
    [][(\E i \in NewEvents : events'[i].kind = "data" /\ events'[i].raised) =>
         /\ data' = {}
         /\ Len(events') = Len(events) + 1
         /\ IF client = "BaseClient"
            THEN /\ section_index' = 0
                 /\ enable_polling => tasks' = Suspend(tasks, Task("poll"))
            ELSE ~fetched_basics' /\ ~fetched_cellv']_vars

C10_Witness ==
    /\ client = "BaseClient" /\ enable_polling
    /\ \E i \in 1 .. Len(events) : events[i].kind = "data" /\ events[i].raised
    /\ \E tk \in BagToSet(tasks) : tk.pc = "poll"

\* ------------------------------------------------ properties of the scheduler

Stopped == main.phase = "stopped"

\* C12: when the scheduler has shut down, whatever ended it, a disconnect
\* has been attempted on every session of the device list, the sessions that
\* never connected and the sessions after one whose disconnect raised or
\* timed out included.
C12_EverySessionDisconnected ==
    Stopped => \A i \in 1 .. NumDevices : devs[i].disc # "none"

\* C13: in periodic mode no read, failed or timed out, ends the polling: the
\* try block of main is never left because of a read.
C13_ReadFailureKeepsPolling ==
    periodic => main.error # "read"

\* C14: once the connect of a session has exceeded its startup deadline, no
\* poll cycle has been started on any session, the sessions connected before
\* it included.
C14_NoRequestAfterAbandonedStartup ==
    (\E i \in 1 .. NumDevices : devs[i].conn = "timeout")
        => \A j \in 1 .. NumDevices : devs[j].cycles = 0

\* C17: in non-periodic mode, with every session connected, the scheduler
\* stops after exactly one poll cycle on each device and a disconnect of each
\* device, and no device is ever read a second time.
C17_OneReadPerDevice ==
    (~periodic /\ \A i \in 1 .. NumDevices : devs[i].conn = "connected")
        => /\ \A i \in 1 .. NumDevices : devs[i].reads <= 1
           /\ Stopped => \A i \in 1 .. NumDevices :
                             devs[i].cycles = 1 /\ devs[i].disc # "none"

\* the time spent reading the devices in the round that was just read
Elapsed == clock.now - clock.start_time_ms

\* C18: the inter-cycle sleep is max(1 s, interval - elapsed): the interval
\* less the time the round took when that leaves more than 1 s (2 s against
\* 5 s sleeps 3 s), and exactly 1 s for every elapsed >= interval - 1 s; it
\* is never zero or negative, and the next round starts that long after.
C18_SleepIsIntervalLessElapsed ==
    main.phase = "sleeping" =>
        /\ clock.wait_time_ms =
               IF Elapsed >= (clock.interval - 1) * 1000 THEN 1000
               ELSE clock.interval * 1000 - Elapsed
        /\ clock.wait_time_ms >= 1000
        /\ (clock.interval = 5 /\ Elapsed = 2000) => clock.wait_time_ms = 3000

\* a round of 2 s against 5 s sleeps 3 s, and a later round that took longer
\* than the interval less 1 s sleeps 1 s
C18_Witness ==
    /\ main.phase = "sleeping" /\ main.round = 1
    /\ clock.interval = 5 /\ Elapsed = 4500 /\ clock.wait_time_ms = 1000
    /\ clock.start_time_ms = 5000

\* ------------------------------------------------ properties of the codecs

\* C21: the request built for (device id, function code, address, word
\* count) has 8 elements: the device id, the function code, the address and
\* the word count as high byte, low byte, so that the four arguments are
\* recovered from the first six bytes, then the two CRC bytes of those six;
\* no request is built when the address or the word count is absent.
C21_RequestEncodesArguments ==
    request.built =>
        IF request.regAddr = <<>> \/ request.readWrd = <<>>
        THEN request.data = <<>>
        ELSE /\ Len(request.data) = 8
             /\ \A i \in 1 .. 8 : request.data[i] \in 0 .. 255
             /\ request.data[1] = request.device_id
             /\ request.data[2] = request.function
             /\ 256 * request.data[3] + request.data[4] = request.regAddr[1]
             /\ 256 * request.data[5] + request.data[6] = request.readWrd[1]
             /\ SubSeq(request.data, 7, 8)
                    = Crc16Modbus(SubSeq(request.data, 1, 6))

\* the request for register 5000, 8 words of device 255
C21_Witness ==
    /\ request.built
    /\ request.device_id = 255 /\ request.function = 3
    /\ request.regAddr = <<5000>> /\ request.readWrd = <<8>>
    /\ SubSeq(request.data, 1, 6) = <<255, 3, 19, 136, 0, 8>>

C23_TimeoutArmedUntilResponse ==
    client = "BaseClient" =>
        \A r \in 1 .. Len(reqs) : InFlight(r) => timers[reqs[r].t] = "armed"

\* C24: in every reachable state at most one per-request timeout of the
\* session is armed.
C24_AtMostOneArmedTimeout ==
    Cardinality({k \in 1 .. Len(timers) : timers[k] = "armed"}) <= 1

\* ------------------------------- properties of the register responses

\* a step of on_data_received of the register session
RegisterResponseHandled == client = "BaseClient" /\ notifs' = notifs + 1

\* the handler step advances the sequencer: after the last section the map is
\* delivered and index and map are reset; otherwise the index moves on and
\* the handler sleeps before it requests the next section
SequencerAdvances ==
    IF LastSection(section_index)
    THEN /\ \E i \in NewEvents : events'[i].kind = "data"
         /\ section_index' = 0
         /\ data' = {}
    ELSE /\ section_index' = section_index + 1
         /\ tasks' = Suspend(tasks, Task("sleep"))
         /\ events' = events

\* C25: a register response with operation byte 131, of any length, or with
\* operation byte 3 and a length other than words*2+5, never runs the section
\* decoder, and the sequencer advances all the same: it finishes the cycle
\* after the last section, and otherwise moves to the next section, whose
\* request is issued when the handler wakes up.
C25_FailedSectionAdvances ==
    /\ [][(/\ RegisterResponseHandled
           /\ \/ response'.op = READ_ERROR
              \/ response'.op = READ_SUCCESS /\ ~response'.lenOk)
          => /\ lastParser' = "none"
             /\ Keys(data') \cap Sections \subseteq Keys(data)
             /\ SequencerAdvances]_vars
    /\ [][(/\ client = "BaseClient"
           /\ CopiesIn(Task("sleep"), tasks') < CopiesIn(Task("sleep"), tasks))
          => /\ Len(timers') = Len(timers) + 1
             /\ timers'[Len(timers')] = "armed"
             /\ \E tk2 \in BagToSet(tasks') :
                  tk2.pc = "write" /\ tk2.sec = section_index]_vars

\* the device error for section 1 ends the cycle: the map delivered holds the
\* fields of section 0 only
C25_Witness ==
    /\ client = "BaseClient" /\ notifs = 2
    /\ response.op = READ_ERROR
    /\ Len(events) = 1 /\ events[1].kind = "data"
    /\ Keys(events[1].map) = {0, DEVICE_TAG, CLIENT_TAG}
    /\ section_index = 0 /\ data = {}

\* C26: a register response whose operation byte is neither 3 nor 131 is a
\* failed section that does not abort the cycle: the sequencer advances to
\* the next section, or finishes the cycle after the last one.
C26_UnknownOperationAdvances ==
    [][(RegisterResponseHandled /\ ~KnownOperation(response'.op))
          => SequencerAdvances]_vars

\* ------------------------------------ properties of the frame assembler

\* the scripted peripheral makes its next delivery
Delivered == feed' # feed

\* C27: a delivery whose first byte is the header marker starts a new frame,
\* whatever was accumulated before: the assembler buffer is exactly that
\* delivery, and if the delivery also ends the frame, the frame decoded is
\* that delivery and nothing of the frame that was in progress.
C27_HeaderStartsNewFrame ==
    [][(Delivered /\ Head(feed.rest)[1] = FRAME_HEADER) =>
          LET d == Head(feed.rest)
          IN  IF ~EndsFrame(d) THEN frame' = d /\ decoded' = decoded
              ELSE IF Operation(d) \in {OPERATION_BASIC_INFO, OPERATION_CELLV_INFO}
              THEN /\ frame' = d
                   /\ decoded' = Append(decoded, <<Operation(d), Payload(d)>>)
              ELSE frame' = <<>> /\ decoded' = decoded]_vars

\* a frame was in progress when the second delivery came with a header
\* marker: the buffer holds the second delivery only
C27_Witness ==
    /\ Len(feed.sent) = 2
    /\ ~EndsFrame(feed.sent[1])
    /\ feed.sent[2][1] = FRAME_HEADER /\ ~EndsFrame(feed.sent[2])
    /\ frame = feed.sent[2]

\* C28: a delivery that does not start with the header marker and arrives
\* while no frame is in progress is dropped, also when it ends with the end
\* marker: nothing is handed to the decoder, no exception is raised, and the
\* assembler, the fetched flags and the result map are unchanged.
C28_SpuriousContinuationDropped ==
    [][(Delivered /\ Head(feed.rest)[1] # FRAME_HEADER /\ frame = <<>>) =>
          /\ decoded' = decoded
          /\ fault' = "none"
          /\ UNCHANGED <<frame, fetched_basics, fetched_cellv, data>>]_vars

\* ------------------------------------ properties of the frame sequencer

\* fetch_next arms a timeout and starts the write of command k
CommandSent(k) ==
    /\ client = "EcoWorthyClient"
    /\ Len(timers') = Len(timers) + 1
    /\ \E tk \in BagToSet(tasks') :
         tk.pc = "write" /\ tk.sec = k /\ tk.t = Len(timers')

C30_NoCellvCommandWhenDisabled ==
    (client = "EcoWorthyClient" /\ read_cellv \in {"absent", "false"})
        => /\ \A r \in 1 .. Len(reqs) : reqs[r].sec # 1
           /\ \A tk \in BagToSet(tasks) : tk.pc = "write" => tk.sec # 1

\* ------------------------------- properties of the vendor frame handling

\* a run of the vendor notification handler completed a frame
VendorFrameCompleted ==
    /\ notifs' # notifs \/ feed' # feed
    /\ operation' # -1

\* C31: a complete vendor frame whose operation code is neither basic-info
\* (3) nor cell-voltage (4) leaves both fetched flags and the result map
\* unchanged, sends no command (no fetch_next is started, no request is
\* written, no timeout is armed), and leaves the assembler idle.
C31_UnknownFrameIgnored ==
    [][(VendorFrameCompleted
          /\ operation' \notin {OPERATION_BASIC_INFO, OPERATION_CELLV_INFO})
        => /\ fetched_basics' = fetched_basics
           /\ fetched_cellv' = fetched_cellv
           /\ data' = data
           /\ tasks' = tasks
           /\ Len(reqs') = Len(reqs)
           /\ Len(timers') = Len(timers)
           /\ frame' = <<>>]_vars

\* an unknown frame was handled after the basic-info frame of the cycle
C31_Witness ==
    /\ operation = UNKNOWN_FRAME_OPERATION
    /\ fetched_basics /\ data # {}
    /\ frame = <<>>
    /\ \E tk \in BagToSet(tasks) : tk.pc = "fetch" /\ tk.root = "handler"

\* C32: every result map delivered to the consumer holds only fields (and
\* tags) decoded during the poll cycle it is delivered for: no field decoded
\* in an earlier cycle appears in a later cycle's map.
C32_MapOnlyOfItsCycle ==
    \A i \in 1 .. Len(events) :
        events[i].kind = "data" =>
            \A e \in events[i].map : e[2] = events[i].cyc

\* C33: the percentage of the basic-info decode is 100*remaining/total when
\* total is not 0, where remaining capacity and total capacity are two
\* separately decoded fields of the payload (the 2-byte field after current
\* and the 2-byte field after that); a payload whose remaining capacity is
\* below its total capacity yields a percentage below 100.
C33_PercentageOfTwoFields ==
    info.decoded =>
        LET remaining == BytesToInt(info.payload, 4, 2)
            total == BytesToInt(info.payload, 6, 2)
        IN  /\ info.capacity_remaining = remaining
            /\ info.capacity = total
            /\ total # 0 => info.percentage = (100 * remaining) \div total
            /\ remaining < total => info.percentage < 100

\* the assembler holds the first bytes of a frame whose end marker has not
\* arrived yet
FrameInProgress == frame # <<>> /\ ~EndsFrame(frame)

\* the response to the command written last has started to arrive while the
\* handler that wrote the command is still suspended in fetch_next, in the
\* sleep that follows the write
ResponseStarted ==
    /\ FrameInProgress
    /\ reqs # <<>>
    /\ LET r == reqs[Len(reqs)]
       IN  /\ r.answered
           /\ Operation(frame) = IF r.sec = 0 THEN OPERATION_BASIC_INFO
                                 ELSE OPERATION_CELLV_INFO
           /\ \E tk \in BagToSet(tasks) :
                 tk.root = "handler" /\ tk.pc = "postwrite" /\ tk.t = r.t

\* C34: the assembler reset that follows a completed vendor frame never
\* discards bytes of a later frame: when the response to the next command
\* starts arriving while the handler of the previous frame is still suspended
\* in fetch_next, the fragments buffered stay in the assembler until the
\* next delivery arrives; no step other than a delivery changes them.
C34_ResetKeepsLaterFrame ==
    [][(ResponseStarted /\ notifs' = notifs /\ feed' = feed)
        => frame' = frame]_vars

\* ------------------------------- properties of the completion future

\* C35: the completion future of a BaseClient is resolved at most once (its
\* value never changes once it is no longer pending) and no operation fails
\* because the future is already resolved: a disconnect(), an error or a
\* stop() that comes after the resolution raises nothing.
C35_FutureResolvedOnce ==
    [][/\ future # "PENDING" => future' = future
       /\ app'.raised # "InvalidStateError"]_vars
====
